---- MODULE Spec2Model ----
(***************************************************************************)
(* A model of AccessService (extensions/amp-access/0.1/amp-access.js).     *)
(*                                                                         *)
(* One action is one browser task: an event handler, a network or dialog   *)
(* completion, a timer, together with the promise reactions (microtasks)   *)
(* that run before the next task.  Promises are modelled by their state;   *)
(* a promise that is derived from others (Promise.all) is settled exactly  *)
(* when its inputs are, since its reaction runs in the same task.          *)
(***************************************************************************)
EXTENDS Integers, Sequences, FiniteSets, TLC

(***************************************************************************)
(* Program constants.                                                      *)
(***************************************************************************)
VIEW_TIMEOUT == 2000

LoginBlockMs == 1000

(***************************************************************************)
(* Bounds of the model.                                                    *)
(***************************************************************************)
MaxRuns == 2

MaxLogins == 2

MaxReports == 3

TickMs == LoginBlockMs \div 2

\* timer_.now(): the origin of the model's time axis.
now == 0

\* The start time of a login whose window has passed.
LongAgo == now - LoginBlockMs

(***************************************************************************)
(* ConfigResolver: buildConfig_ and buildConfigLoginMap_.                  *)
(*                                                                         *)
(* A URL is modelled by its scheme.  A JSON value of the "login" property  *)
(* is a tagged value: absent, a string, a map or anything else.            *)
(***************************************************************************)
Urls == {"https", "http"}

NoUrl == "absent"

LoginNames == {"a", "b"}

EmptyMap == [k \in {} |-> "https"]

LoginJsons ==
    {[kind |-> "absent", str |-> NoUrl, map |-> EmptyMap],
     [kind |-> "number", str |-> NoUrl, map |-> EmptyMap]}
    \cup {[kind |-> "string", str |-> u, map |-> EmptyMap] : u \in Urls}
    \cup {[kind |-> "map", str |-> NoUrl, map |-> m] :
            m \in UNION {[S -> Urls] : S \in SUBSET LoginNames}}

ConfigJsons ==
    [parses : {TRUE},
     type : {"absent", "client", "server", "other", "bogus"},
     authorization : Urls \cup {NoUrl},
     pingback : Urls \cup {NoUrl},
     login : LoginJsons,
     authorizationFallbackResponse : BOOLEAN]
    \cup
    [parses : {FALSE},
     type : {"absent"},
     authorization : {NoUrl},
     pingback : {NoUrl},
     login : {[kind |-> "absent", str |-> NoUrl, map |-> EmptyMap]},
     authorizationFallbackResponse : {FALSE}]

AccessType == {"client", "server", "other"}

\* user.assertEnumValue(AccessType, configJson['type']) or the default.
ConfigType(json) ==
    IF json.type = "absent" THEN "client" ELSE json.type

\* assertHttpsUrl of src/url.
assertHttpsUrl(url) == url = "https"

LoginMapShapeOk(loginConfig) ==
    loginConfig.kind \in {"absent", "string", "map"}

buildConfigLoginMap_(loginConfig) ==
    CASE loginConfig.kind = "string" -> [k \in {""} |-> loginConfig.str]
      [] loginConfig.kind = "map" -> loginConfig.map
      [] OTHER -> EmptyMap

AllUrlsHttps(json) ==
    /\ json.authorization # NoUrl => assertHttpsUrl(json.authorization)
    /\ json.pingback # NoUrl => assertHttpsUrl(json.pingback)
    /\ \A k \in DOMAIN buildConfigLoginMap_(json.login) :
          assertHttpsUrl(buildConfigLoginMap_(json.login)[k])

MandatoryMissingNoPingbackCheck(json) ==
    \/ json.authorization = NoUrl
    \/ DOMAIN buildConfigLoginMap_(json.login) = {}

\* The three user.assert calls made for type client and server.
MandatoryMissing(json) ==
    \/ json.authorization = NoUrl
    \/ json.pingback = NoUrl
    \/ DOMAIN buildConfigLoginMap_(json.login) = {}

NoConfig ==
    [type |-> "none", authorization |-> FALSE, pingback |-> FALSE,
     loginMap |-> {}, authorizationFallbackResponse |-> FALSE]

\* The error buildConfig_ throws for a configuration, "" when it throws none.
ConfigError(json) ==
    CASE ~json.parses -> "Failed to parse"
      [] ConfigType(json) \notin AccessType -> "Unknown access type"
      [] ~LoginMapShapeOk(json.login) -> "login must be a URL or a map"
      [] ~AllUrlsHttps(json) -> "URL must be https"
      [] /\ ConfigType(json) \in {"client", "server"}
         /\ MandatoryMissing(json) -> "mandatory property missing"
      [] OTHER -> ""

\* The AccessConfigDef buildConfig_ returns; the dynamic part of the model
\* keeps of each URL only whether it is configured.
buildConfig_(json) ==
    IF ConfigError(json) # ""
    THEN NoConfig
    ELSE [type |-> ConfigType(json),
          authorization |-> json.authorization # NoUrl,
          pingback |-> json.pingback # NoUrl,
          loginMap |-> DOMAIN buildConfigLoginMap_(json.login),
          authorizationFallbackResponse |-> json.authorizationFallbackResponse]

(***************************************************************************)
(* Authorization responses, access expressions and content elements.       *)
(***************************************************************************)
NullResponse == [from |-> "null", subscriber |-> FALSE]

ServerResponses == {[from |-> "server", subscriber |-> b] : b \in BOOLEAN}

\* config_.authorizationFallbackResponse, when configured.
FallbackResponse == [from |-> "fallback", subscriber |-> FALSE]

AccessExprs == {"subscriber", "NOT subscriber"}

\* evaluateAccessExpr of ./access-expr, on the expressions of the model.
evaluateAccessExpr(expr, response) ==
    IF expr = "subscriber" THEN response.subscriber ELSE ~response.subscriber

ElementKinds == [expr : AccessExprs, template : BOOLEAN]

VARIABLES
    configJson,                 \* the text of the amp-access element
    phase,                      \* "new", "failed", "constructed", "started"
    config_,
    isProxyOrigin_,
    elements,                   \* the [amp-access] elements of the document
    hide,                       \* hide[i]: element i has amp-access-hide
    authResponse_,
    firstAuthorizationPromise_, \* "pending" or "resolved"
    lastAuthorizationPromise_,  \* 0: the first promise; k: Promise.all of run k
    runs,                       \* the calls of runAuthorization_, in order
    loading,                    \* class amp-access-loading
    error,                      \* class amp-access-error
    broadcasts,                 \* amp-access-reauthorize messages sent
    visible,                    \* viewer_.isVisible()
    viewListeners,              \* timeToView of each scheduleView_ listener
    reportViewPromise_,         \* 0: null; r: the promise of report r
    reports,                    \* the reportWhenViewed_ chains started
    loginUrlMap_,
    urlsBuilding,               \* a buildLoginUrls_ is in flight
    loginPromise_,              \* 0: null; a: the promise of login attempt a
    loginStartTime_,
    logins,                     \* the login dialogs opened, in order
    lastLogin                   \* the latest login() call and what it returned

vars ==
    <<configJson, phase, config_, isProxyOrigin_, elements, hide,
      authResponse_, firstAuthorizationPromise_, lastAuthorizationPromise_,
      runs, loading, error, broadcasts, visible, viewListeners,
      reportViewPromise_, reports, loginUrlMap_, urlsBuilding, loginPromise_,
      loginStartTime_, logins, lastLogin>>

configVars == <<configJson, config_, isProxyOrigin_, elements>>

authVars ==
    <<authResponse_, firstAuthorizationPromise_, lastAuthorizationPromise_,
      runs, loading, error, hide, urlsBuilding>>

viewVars == <<viewListeners, reportViewPromise_, reports>>

loginVars == <<loginPromise_, loginStartTime_, logins, lastLogin>>

(***************************************************************************)
(* AuthorizationEngine.  The operators below take and return the record A  *)
(* of the fields runAuthorization_ and its reactions read and write.       *)
(***************************************************************************)
AuthState ==
    [runs |-> runs, first |-> firstAuthorizationPromise_,
     last |-> lastAuthorizationPromise_, resp |-> authResponse_,
     loading |-> loading, error |-> error, hide |-> hide,
     urlsBuilding |-> urlsBuilding]

\* A resolver that settles its promise anew on every call.
RearmingResolver(p) == IF p = "pending" THEN "resolved" ELSE "pending"

\* The resolve function of firstAuthorizationPromise_: a settled promise
\* stays as it is.
firstAuthorizationResolver_(p) == IF p = "pending" THEN "resolved" ELSE p

\* run.st: "fetching" (the URL is built and the request is out),
\* "applying" (the response is stored and elements are being updated),
\* "resolved" (the promise runAuthorization_ returned is resolved; failed
\* tells the reaction that resolved it), "skipped" (type=other: the call
\* returned Promise.resolve()).  run.joined: the Promise.all the call
\* stored in lastAuthorizationPromise_ is resolved.
NewRun(st, disableFallback, by) ==
    [st |-> st, disableFallback |-> disableFallback, by |-> by,
     response |-> NullResponse, failed |-> FALSE, joined |-> FALSE,
     el |-> [i \in DOMAIN elements |-> [stage |-> "idle", on |-> FALSE]]]

\* The promise runAuthorization_ returned for a run is resolved.
RunResolved(run) == run.st \in {"resolved", "skipped"}

\* lastAuthorizationPromise_ = promise, without the first promise.
JoinWithoutFirst(firstState, runDone) == runDone

\* Promise.all([firstAuthorizationPromise_, promise]): neither input ever
\* rejects, so it is settled when both are resolved.
PromiseAllSettled(firstState, runDone) == firstState = "resolved" /\ runDone

\* The reactions of every Promise.all to the promises settled in a task: a
\* settled promise stays settled.
SettleJoins(A) ==
    [A EXCEPT !.runs =
        [k \in DOMAIN A.runs |->
            [A.runs[k] EXCEPT !.joined =
                \/ @
                \/ /\ A.runs[k].st # "skipped"
                   /\ PromiseAllSettled(A.first, RunResolved(A.runs[k]))]]]

\* Whether the promise that lastAuthorizationPromise_ held when it had the
\* value ref is settled.
AuthorizationSettled(ref) ==
    IF ref = 0
    THEN firstAuthorizationPromise_ = "resolved"
    ELSE runs[ref].joined

\* applyAuthorizationAttrs_: nothing to do when the marker already agrees.
applyAuthorizationAttrs_(hidden, on) ==
    IF on = ~hidden THEN "done" ELSE "mutate"

ApplyToElementNoRenderWait(element, hidden, response) ==
    [stage |-> applyAuthorizationAttrs_(
                   hidden, evaluateAccessExpr(element.expr, response)),
     on |-> evaluateAccessExpr(element.expr, response)]

\* applyAuthorizationToElement_: templates are rendered first when on.
applyAuthorizationToElement_(element, hidden, response) ==
    LET on == evaluateAccessExpr(element.expr, response) IN
    IF on /\ element.template
    THEN [stage |-> "render", on |-> on]
    ELSE [stage |-> applyAuthorizationAttrs_(hidden, on), on |-> on]

ElementsDone(el) == \A i \in DOMAIN el : el[i].stage = "done"

\* setAuthResponse_
setAuthResponse_(A, response) ==
    [A EXCEPT !.resp = response,
              !.first = firstAuthorizationResolver_(@)]

\* buildLoginUrls_ starts a build unless the login map is empty.
buildLoginUrls_(building) == building \/ config_.loginMap # {}

\* The reaction to a response (fetched or fallback) of run k.
Respond(A, k, response) ==
    LET el == [i \in DOMAIN elements |->
                 applyAuthorizationToElement_(elements[i], A.hide[i], response)]
        B == setAuthResponse_(A, response)
    IN [B EXCEPT !.loading = FALSE,
                 !.error = FALSE,
                 !.urlsBuilding = buildLoginUrls_(@),
                 !.runs[k] = [@ EXCEPT
                     !.st = IF ElementsDone(el) THEN "resolved" ELSE "applying",
                     !.response = response,
                     !.el = el]]

\* A bottom catch that forgets the stored response.
FailClearsResponse(A, k) ==
    [A EXCEPT !.loading = FALSE, !.error = TRUE, !.resp = NullResponse,
              !.runs[k] = [@ EXCEPT !.st = "resolved", !.failed = TRUE]]

\* The bottom catch of runAuthorization_.
Fail(A, k) ==
    [A EXCEPT !.loading = FALSE, !.error = TRUE,
              !.runs[k] = [@ EXCEPT !.st = "resolved", !.failed = TRUE]]

\* A catch that takes the fallback also when the caller disabled it.
FetchFailedIgnoringDisable(A, k) ==
    IF config_.authorizationFallbackResponse
    THEN Respond(A, k, FallbackResponse)
    ELSE Fail(A, k)

\* The catch of the fetch: the fallback response, or the error again.
FetchFailed(A, k) ==
    IF config_.authorizationFallbackResponse /\ ~A.runs[k].disableFallback
    THEN Respond(A, k, FallbackResponse)
    ELSE Fail(A, k)

\* The test of the skip path without its proxy-origin half.
SkipsOnlyWithoutFallback ==
    config_.type = "other" /\ ~config_.authorizationFallbackResponse

SkipsAuthorization ==
    /\ config_.type = "other"
    /\ ~config_.authorizationFallbackResponse \/ isProxyOrigin_

runAuthorization_(A, disableFallback, by) ==
    LET k == Len(A.runs) + 1 IN
    IF SkipsAuthorization
    THEN [A EXCEPT !.first = firstAuthorizationResolver_(@),
                   !.runs = Append(@, NewRun("skipped", disableFallback, by))]
    ELSE LET B == [A EXCEPT
                     !.loading = TRUE,
                     !.runs = Append(@, NewRun("fetching", disableFallback, by)),
                     !.last = k]
         IN IF config_.authorization THEN B ELSE Respond(B, k, FallbackResponse)

\* After element i of run k is done with stage: the run's promise resolves
\* with the last element.
ElementStep(A, k, i, stage) ==
    LET el == [A.runs[k].el EXCEPT ![i].stage = stage] IN
    [A EXCEPT !.runs[k] = [@ EXCEPT
        !.el = el,
        !.st = IF ElementsDone(el) THEN "resolved" ELSE "applying"]]

SetAuth(A) ==
    /\ runs' = SettleJoins(A).runs
    /\ firstAuthorizationPromise_' = A.first
    /\ lastAuthorizationPromise_' = A.last
    /\ authResponse_' = A.resp
    /\ loading' = A.loading
    /\ error' = A.error
    /\ hide' = A.hide
    /\ urlsBuilding' = A.urlsBuilding

(***************************************************************************)
(* BroadcastBus.                                                           *)
(***************************************************************************)
\* getSourceOrigin(win.location)
pubOrigin_ == "https://publisher.example"

Origins == {pubOrigin_, "https://other.example"}

MessageTypes == {"amp-access-reauthorize", "amp-other"}

Messages == [type : MessageTypes, origin : Origins]

broadcastReauthorize_(sent) ==
    Append(sent, [type |-> "amp-access-reauthorize", origin |-> pubOrigin_])

\* A listener that does not compare the origin.
AcceptsAnyOrigin(message) == message.type = "amp-access-reauthorize"

\* The test of the onBroadcast listener.
AcceptsBroadcast(message) ==
    message.type = "amp-access-reauthorize" /\ message.origin = pubOrigin_

(***************************************************************************)
(* ViewDetector and PingbackReporter.  The operators take and return the   *)
(* record V of reportViewPromise_, the report chains and the listeners     *)
(* scheduleView_ registered.                                               *)
(*                                                                         *)
(* report.st: "waiting" (whenViewed_ is pending, its triggers armed),      *)
(* "authwait" (viewed; waiting for the promise lastAuthorizationPromise_   *)
(* held then), "sending" (the pingback request is out), "resolved",        *)
(* "canceled" (rejected by visibility), "failed" (the pingback failed).    *)
(* report.due is the time left on the timer, kept as it was when the wait  *)
(* was resolved; report.cause is the trigger that settled the wait.  A     *)
(* chain that has ended keeps only its outcome.                            *)
(***************************************************************************)
ViewState ==
    [rvp |-> reportViewPromise_, reports |-> reports,
     listeners |-> viewListeners]

Triggers == {"visibility", "timer", "scroll", "click"}

\* whenViewed_ for timeToView = 0: Promise.resolve(), and the reaction that
\* reads lastAuthorizationPromise_ runs in the same task.
ImmediateView(lastRef, t) ==
    [st |-> "authwait", timeToView |-> 0, due |-> t, waitsFor |-> lastRef,
     armed |-> {}, cause |-> "immediate"]

\* whenViewed_ for timeToView > 0: the four triggers are armed.
ArmedView(timeToView, t) ==
    [st |-> "waiting", timeToView |-> timeToView, due |-> t + timeToView,
     waitsFor |-> 0, armed |-> Triggers, cause |-> "none"]

whenViewed_(timeToView, lastRef, t) ==
    IF timeToView = 0
    THEN ImmediateView(lastRef, t)
    ELSE ArmedView(timeToView, t)

reportWhenViewed_(V, timeToView, lastRef, t) ==
    IF V.rvp # 0
    THEN V
    ELSE [V EXCEPT !.reports = Append(@, whenViewed_(timeToView, lastRef, t)),
                   !.rvp = Len(V.reports) + 1]

\* A scheduleView_ that starts the monitoring whether visible or not.
ScheduleViewUnseen(V, timeToView, isVisible, lastRef, t) ==
    [reportWhenViewed_([V EXCEPT !.rvp = 0], timeToView, lastRef, t)
        EXCEPT !.listeners = Append(@, timeToView)]

\* scheduleView_ on a ready document.
scheduleView_(V, timeToView, isVisible, lastRef, t) ==
    LET V0 == [V EXCEPT !.rvp = 0]
        V1 == IF isVisible
              THEN reportWhenViewed_(V0, timeToView, lastRef, t)
              ELSE V0
    IN [V1 EXCEPT !.listeners = Append(@, timeToView)]

\* The listeners of scheduleView_ on a change to visible, in the order they
\* were registered.
RECURSIVE FireVisible(_, _, _, _)
FireVisible(V, i, lastRef, t) ==
    IF i > Len(V.listeners)
    THEN V
    ELSE FireVisible(reportWhenViewed_(V, V.listeners[i], lastRef, t),
                     i + 1, lastRef, t)

ResolveKeepArmed(report, cause, lastRef) ==
    [report EXCEPT !.st = "authwait", !.waitsFor = lastRef, !.cause = cause]

\* resolve() of whenViewed_ and its reaction: every unlisten is called,
\* then reportWhenViewed_ reads lastAuthorizationPromise_.
ResolveView(report, cause, lastRef) ==
    [report EXCEPT !.st = "authwait", !.armed = {}, !.waitsFor = lastRef,
                   !.cause = cause]

VisibilityFalseRegistersView(report) ==
    [report EXCEPT !.st = "authwait", !.armed = {}, !.cause = "hidden"]

\* reject(cancellation()) of whenViewed_ and its reaction.
CancelView(report) ==
    [report EXCEPT !.st = "canceled", !.armed = {}, !.cause = "hidden",
                   !.due = 0]

Armed(report, trigger) == report.st = "waiting" /\ trigger \in report.armed

\* A scroll or a click: every armed listener of it resolves its wait.
FireTrigger(V, trigger, lastRef) ==
    [V EXCEPT !.reports =
        [r \in DOMAIN V.reports |->
            IF Armed(V.reports[r], trigger)
            THEN ResolveView(V.reports[r], trigger, lastRef)
            ELSE V.reports[r]]]

\* A cancellation that leaves reportViewPromise_ as it is.
FireHiddenKeepsPromise(V) ==
    [V EXCEPT !.reports =
        [r \in DOMAIN V.reports |->
            IF Armed(V.reports[r], "visibility")
            THEN CancelView(V.reports[r])
            ELSE V.reports[r]]]

\* A change to not visible: every armed wait is rejected, and the catch of
\* reportWhenViewed_ clears reportViewPromise_.
FireHidden(V) ==
    IF \E r \in DOMAIN V.reports : Armed(V.reports[r], "visibility")
    THEN [V EXCEPT !.rvp = 0,
                   !.reports =
                      [r \in DOMAIN V.reports |->
                          IF Armed(V.reports[r], "visibility")
                          THEN CancelView(V.reports[r])
                          ELSE V.reports[r]]]
    ELSE V

\* The end of a report chain.
EndReport(report, st) ==
    [report EXCEPT !.st = st, !.due = 0, !.waitsFor = 0]

SetView(V) ==
    /\ reportViewPromise_' = V.rvp
    /\ reports' = V.reports
    /\ viewListeners' = V.listeners

\* Pingback requests sent so far.
PingbacksSent ==
    Cardinality({r \in DOMAIN reports :
                    reports[r].st \in {"sending", "failed"}
                    \/ (reports[r].st = "resolved" /\ config_.pingback)})

(***************************************************************************)
(* Initial states: the document before the service is constructed.         *)
(***************************************************************************)
InitWith(jsons, proxies, elementSeqs, visibilities) ==
    /\ configJson \in jsons
    /\ isProxyOrigin_ \in proxies
    /\ elements \in elementSeqs
    /\ hide \in [DOMAIN elements -> BOOLEAN]
    /\ phase = "new"
    /\ config_ = NoConfig
    /\ authResponse_ = NullResponse
    /\ firstAuthorizationPromise_ = "pending"
    /\ lastAuthorizationPromise_ = 0
    /\ runs = <<>>
    /\ loading = FALSE
    /\ error = FALSE
    /\ broadcasts = <<>>
    /\ visible \in visibilities
    /\ viewListeners = <<>>
    /\ reportViewPromise_ = 0
    /\ reports = <<>>
    /\ loginUrlMap_ = {}
    /\ urlsBuilding = FALSE
    /\ loginPromise_ = 0
    /\ loginStartTime_ = LongAgo
    /\ logins = <<>>
    /\ lastLogin = [branch |-> "none", ret |-> 0]

\* The constructor: buildConfig_ throws, or the fields are initialised.
Construct ==
    /\ phase = "new"
    /\ phase' = IF ConfigError(configJson) = "" THEN "constructed" ELSE "failed"
    /\ config_' = buildConfig_(configJson)
    /\ UNCHANGED <<configJson, isProxyOrigin_, elements>>
    /\ UNCHANGED <<authVars, viewVars, loginVars>>
    /\ UNCHANGED <<broadcasts, visible, loginUrlMap_>>

(***************************************************************************)
(* The reaction of login() to the promise of its re-authorization run:     *)
(* scheduleView_(0), in the task that resolves run k.                      *)
(***************************************************************************)
WaitingLogins(k) ==
    {a \in DOMAIN logins : logins[a].st = "reauth" /\ logins[a].run = k}

\* A reaction that follows only a run that did not fail, as if the promise
\* of a failed run were rejected.
ReauthorizedOnlyOnSuccess(A, k) ==
    IF RunResolved(A.runs[k]) /\ ~A.runs[k].failed /\ WaitingLogins(k) # {}
    THEN /\ visible => Len(reports) < MaxReports
         /\ SetView(scheduleView_(ViewState, 0, visible, A.last, now))
         /\ logins' = [a \in DOMAIN logins |->
                         IF a \in WaitingLogins(k)
                         THEN [logins[a] EXCEPT
                                 !.st = "resolved",
                                 !.steps = Append(@, "scheduleView(0)")]
                         ELSE logins[a]]
    ELSE UNCHANGED <<viewVars, logins>>

Reauthorized(A, k) ==
    IF RunResolved(A.runs[k]) /\ WaitingLogins(k) # {}
    THEN /\ visible => Len(reports) < MaxReports
         /\ SetView(scheduleView_(ViewState, 0, visible, A.last, now))
         /\ logins' = [a \in DOMAIN logins |->
                         IF a \in WaitingLogins(k)
                         THEN [logins[a] EXCEPT
                                 !.st = "resolved",
                                 !.steps = Append(@, "scheduleView(0)")]
                         ELSE logins[a]]
    ELSE UNCHANGED <<viewVars, logins>>

(***************************************************************************)
(* AuthorizationEngine: the tasks.                                         *)
(***************************************************************************)
\* startInternal_
Start ==
    /\ phase = "constructed"
    /\ phase' = "started"
    /\ SetAuth(runAuthorization_(
           [AuthState EXCEPT !.urlsBuilding = buildLoginUrls_(@)],
           FALSE, "start"))
    /\ SetView(scheduleView_(ViewState, VIEW_TIMEOUT, visible,
                             lastAuthorizationPromise_', now))
    /\ UNCHANGED <<configVars, loginVars>>
    /\ UNCHANGED <<broadcasts, visible, loginUrlMap_>>

\* The onBroadcast listener.
ReceiveBroadcast(message) ==
    /\ phase = "started"
    /\ IF AcceptsBroadcast(message)
       THEN /\ Len(runs) < MaxRuns
            /\ SetAuth(runAuthorization_(AuthState, FALSE, "broadcast"))
       ELSE UNCHANGED authVars
    /\ UNCHANGED <<configVars, viewVars, loginVars>>
    /\ UNCHANGED <<phase, broadcasts, visible, loginUrlMap_>>

AuthTask(A, k) ==
    /\ SetAuth(A)
    /\ Reauthorized(A, k)
    /\ UNCHANGED <<configVars, loginPromise_, loginStartTime_, lastLogin>>
    /\ UNCHANGED <<phase, broadcasts, visible, loginUrlMap_>>

\* The authorization request of run k succeeds with a response.
FetchOk(k, response) ==
    /\ runs[k].st = "fetching"
    /\ AuthTask(Respond(AuthState, k, response), k)

\* The request fails or AUTHORIZATION_TIMEOUT passes.
FetchFail(k) ==
    /\ runs[k].st = "fetching"
    /\ AuthTask(FetchFailed(AuthState, k), k)

\* The templates of element i are rendered (or failed, which is ignored).
RenderDone(k, i) ==
    /\ runs[k].st = "applying"
    /\ runs[k].el[i].stage = "render"
    /\ AuthTask(ElementStep(AuthState, k, i,
                    applyAuthorizationAttrs_(hide[i], runs[k].el[i].on)), k)

\* The mutation resources_.mutateElement scheduled for element i runs.
MutateDone(k, i) ==
    /\ runs[k].st = "applying"
    /\ runs[k].el[i].stage = "mutate"
    /\ AuthTask(ElementStep(
                    [AuthState EXCEPT !.hide[i] = ~runs[k].el[i].on],
                    k, i, "done"), k)

\* The URLs buildLoginUrls_ expands are stored.
LoginUrlsBuilt ==
    /\ urlsBuilding
    /\ urlsBuilding' = FALSE
    /\ loginUrlMap_' = loginUrlMap_ \cup config_.loginMap
    /\ UNCHANGED <<configVars, viewVars, loginVars>>
    /\ UNCHANGED <<authResponse_, firstAuthorizationPromise_,
                   lastAuthorizationPromise_, runs, loading, error, hide>>
    /\ UNCHANGED <<phase, broadcasts, visible>>

(***************************************************************************)
(* ViewDetector and PingbackReporter: the tasks.                           *)
(***************************************************************************)
ViewTask ==
    /\ UNCHANGED <<configVars, authVars, loginVars>>
    /\ UNCHANGED <<phase, loginUrlMap_>>

\* The viewer reports a change of visibility.
VisibilityChanged ==
    /\ phase = "started"
    /\ visible' = ~visible
    /\ IF visible'
       THEN /\ reportViewPromise_ = 0 /\ viewListeners # <<>>
                => Len(reports) < MaxReports
            /\ SetView(FireVisible(ViewState, 1, lastAuthorizationPromise_, now))
       ELSE SetView(FireHidden(ViewState))
    /\ UNCHANGED broadcasts
    /\ ViewTask

\* The timer of report r fires.
TimerFires(r) ==
    /\ Armed(reports[r], "timer")
    /\ now >= reports[r].due
    /\ reports' = [reports EXCEPT
          ![r] = ResolveView(@, "timer", lastAuthorizationPromise_)]
    /\ UNCHANGED <<viewListeners, reportViewPromise_, broadcasts, visible>>
    /\ ViewTask

\* The viewport scrolls, or the document is tapped.
UserGesture(trigger) ==
    /\ \E r \in DOMAIN reports : Armed(reports[r], trigger)
    /\ SetView(FireTrigger(ViewState, trigger, lastAuthorizationPromise_))
    /\ UNCHANGED <<broadcasts, visible>>
    /\ ViewTask

ReportWithoutWaiting(r) == reports[r].st = "authwait"

\* The promise the report waits for is settled.
ReportMayContinue(r) ==
    reports[r].st = "authwait" /\ AuthorizationSettled(reports[r].waitsFor)

\* reportViewToServer_: with no pingback URL the report is done and the
\* re-authorize broadcast goes out; else the request is sent.
ReportView(r) ==
    /\ ReportMayContinue(r)
    /\ IF config_.pingback
       THEN /\ reports' = [reports EXCEPT ![r].st = "sending"]
            /\ UNCHANGED broadcasts
       ELSE /\ reports' = [reports EXCEPT ![r] = EndReport(@, "resolved")]
            /\ broadcasts' = broadcastReauthorize_(broadcasts)
    /\ UNCHANGED <<viewListeners, reportViewPromise_, visible>>
    /\ ViewTask

PingbackOk(r) ==
    /\ reports[r].st = "sending"
    /\ reports' = [reports EXCEPT ![r] = EndReport(@, "resolved")]
    /\ broadcasts' = broadcastReauthorize_(broadcasts)
    /\ UNCHANGED <<viewListeners, reportViewPromise_, visible>>
    /\ ViewTask

\* A failure that is followed by the broadcast of a success.
PingbackFailBroadcasts(r) ==
    /\ reports[r].st = "sending"
    /\ reports' = [reports EXCEPT ![r] = EndReport(@, "failed")]
    /\ reportViewPromise_' = 0
    /\ broadcasts' = broadcastReauthorize_(broadcasts)
    /\ UNCHANGED <<viewListeners, visible>>
    /\ ViewTask

\* The catch of reportWhenViewed_ clears reportViewPromise_.
PingbackFail(r) ==
    /\ reports[r].st = "sending"
    /\ reports' = [reports EXCEPT ![r] = EndReport(@, "failed")]
    /\ reportViewPromise_' = 0
    /\ UNCHANGED <<viewListeners, broadcasts, visible>>
    /\ ViewTask

(***************************************************************************)
(* LoginCoordinator.                                                       *)
(*                                                                         *)
(* login.st: "dialog" (the dialog is open), "reauth" (the dialog returned  *)
(* and the promise waits for run login.run), "resolved", "rejected".       *)
(* login.event is the latest access-login-* analytics event, login.steps   *)
(* the calls the completion handler has made, in order.                    *)
(***************************************************************************)
LoginTypes == {"a", "b"}

\* The values of the success field of the dialog's result; "" stands for
\* an empty or absent one.
SuccessValues == {"true", "yes", "1", "", "no"}

Thrown == -1

DedupWhilePending(promise, start, t) == promise # 0

\* The test that returns the pending promise of login().
LoginDeduped(promise, start, t) ==
    promise # 0 /\ t - start < LoginBlockMs

\* A login() without the two assertions.
AnyVariantReady(type) == TRUE

\* The two user.assert calls of login().
LoginUrlReady(type) == type \in config_.loginMap /\ type \in loginUrlMap_

\* login(type)
Login(type) ==
    /\ phase = "started"
    /\ IF LoginDeduped(loginPromise_, loginStartTime_, now)
       THEN /\ lastLogin' = [branch |-> "pending", ret |-> loginPromise_]
            /\ UNCHANGED <<loginPromise_, loginStartTime_, logins>>
       ELSE IF ~LoginUrlReady(type)
       THEN /\ lastLogin' = [branch |-> "thrown", ret |-> Thrown]
            /\ UNCHANGED <<loginPromise_, loginStartTime_, logins>>
       ELSE /\ Len(logins) < MaxLogins
            /\ logins' = Append(logins,
                  [type |-> type, st |-> "dialog", event |-> "started",
                   run |-> 0, steps |-> <<>>])
            /\ loginPromise_' = Len(logins) + 1
            /\ loginStartTime_' = now
            /\ lastLogin' = [branch |-> "opened", ret |-> Len(logins) + 1]
    /\ UNCHANGED <<configVars, authVars, viewVars>>
    /\ UNCHANGED <<phase, broadcasts, visible, loginUrlMap_>>

IsSuccess(s) == s \in {"true", "yes", "1"}

OnlyExplicitSuccess(s) == IsSuccess(s)

\* success || !s
RepeatsAuthorization(s) == IsSuccess(s) \/ s = ""

\* The dialog of attempt a returns a result whose success field is s.
DialogDone(a, s) ==
    /\ logins[a].st = "dialog"
    /\ loginPromise_' = 0
    /\ IF RepeatsAuthorization(s)
       THEN LET A == runAuthorization_(AuthState, TRUE, "login")
                k == Len(runs) + 1
                done == RunResolved(A.runs[k])
            IN /\ Len(runs) < MaxRuns
               /\ broadcasts' = broadcastReauthorize_(broadcasts)
               /\ SetAuth(A)
               /\ logins' = [logins EXCEPT ![a] = [@ EXCEPT
                     !.event = IF IsSuccess(s) THEN "success" ELSE "rejected",
                     !.run = k,
                     !.st = IF done THEN "resolved" ELSE "reauth",
                     !.steps = <<"broadcast", "runAuthorization(true)">>
                               \o IF done THEN <<"scheduleView(0)">> ELSE <<>>]]
               /\ IF done
                  THEN /\ visible => Len(reports) < MaxReports
                       /\ SetView(scheduleView_(ViewState, 0, visible,
                                                A.last, now))
                  ELSE UNCHANGED viewVars
       ELSE /\ logins' = [logins EXCEPT ![a] = [@ EXCEPT
                     !.event = "rejected", !.st = "resolved"]]
            /\ UNCHANGED <<authVars, viewVars, broadcasts>>
    /\ UNCHANGED <<configVars, loginStartTime_, lastLogin>>
    /\ UNCHANGED <<phase, visible, loginUrlMap_>>

\* A failure that leaves loginPromise_ as it is.
DialogFailKeepsPending(a) ==
    /\ logins[a].st = "dialog"
    /\ logins' = [logins EXCEPT ![a] = [@ EXCEPT
          !.event = "failed", !.st = "rejected"]]
    /\ UNCHANGED <<configVars, authVars, viewVars>>
    /\ UNCHANGED <<loginPromise_, loginStartTime_, lastLogin>>
    /\ UNCHANGED <<phase, broadcasts, visible, loginUrlMap_>>

\* The dialog of attempt a fails.
DialogFail(a) ==
    /\ logins[a].st = "dialog"
    /\ logins' = [logins EXCEPT ![a] = [@ EXCEPT
          !.event = "failed", !.st = "rejected"]]
    /\ loginPromise_' = IF loginPromise_ = a THEN 0 ELSE loginPromise_
    /\ UNCHANGED <<configVars, authVars, viewVars>>
    /\ UNCHANGED <<loginStartTime_, lastLogin>>
    /\ UNCHANGED <<phase, broadcasts, visible, loginUrlMap_>>

(***************************************************************************)
(* Time.  Every time the program stores is kept relative to the current    *)
(* time, which is the origin: now is 0, a start time is negative, a timer  *)
(* is due in due milliseconds.  A tick moves the origin.  A start time of  *)
(* the login window's length or more ago is kept as LongAgo, since login() *)
(* reads it only to compare the elapsed time with the window.  A timer     *)
(* fires when it is due: time does not pass an armed timer.                *)
(***************************************************************************)
DueTimes ==
    {reports[r].due : r \in {q \in DOMAIN reports : Armed(reports[q], "timer")}}

Min(S) == CHOOSE x \in S : \A y \in S : x <= y

Elapse(start, d) == IF start - d < LongAgo THEN LongAgo ELSE start - d

Tick ==
    /\ phase = "started"
    /\ DueTimes # {} \/ loginStartTime_ # LongAgo
    /\ \A d \in DueTimes : d > 0
    /\ LET d == Min(DueTimes \cup {TickMs}) IN
       /\ loginStartTime_' = Elapse(loginStartTime_, d)
       /\ reports' = [r \in DOMAIN reports |->
                        IF Armed(reports[r], "timer")
                        THEN [reports[r] EXCEPT !.due = @ - d]
                        ELSE reports[r]]
    /\ UNCHANGED <<configVars, authVars>>
    /\ UNCHANGED <<viewListeners, reportViewPromise_>>
    /\ UNCHANGED <<loginPromise_, logins, lastLogin>>
    /\ UNCHANGED <<phase, broadcasts, visible, loginUrlMap_>>

(***************************************************************************)
(* Specifications.                                                         *)
(***************************************************************************)
AuthNext ==
    \/ \E k \in DOMAIN runs : \E response \in ServerResponses :
          FetchOk(k, response)
    \/ \E k \in DOMAIN runs : FetchFail(k)
    \/ \E k \in DOMAIN runs : \E i \in DOMAIN elements : RenderDone(k, i)
    \/ \E k \in DOMAIN runs : \E i \in DOMAIN elements : MutateDone(k, i)

ViewNext ==
    \/ VisibilityChanged
    \/ \E r \in DOMAIN reports : TimerFires(r)
    \/ \E trigger \in {"scroll", "click"} : UserGesture(trigger)
    \/ \E r \in DOMAIN reports : ReportView(r)
    \/ \E r \in DOMAIN reports : PingbackOk(r)
    \/ \E r \in DOMAIN reports : PingbackFail(r)

LoginNext ==
    \/ \E type \in LoginTypes : Login(type)
    \/ \E a \in DOMAIN logins : \E s \in SuccessValues : DialogDone(a, s)
    \/ \E a \in DOMAIN logins : DialogFail(a)
    \/ LoginUrlsBuilt

BroadcastNext == \E message \in Messages : ReceiveBroadcast(message)

\* A document whose login map is {a}.
MainJsons ==
    {j \in ConfigJsons :
        /\ j.parses
        /\ j.type \in {"client", "other"}
        /\ j.authorization # "http"
        /\ j.pingback # "http"
        /\ j.login.kind = "map"
        /\ DOMAIN j.login.map = {"a"}
        /\ j.login.map["a"] = "https"}

\* One element, with a template.
MainElements == {<<[expr |-> "subscriber", template |-> TRUE]>>}

(* Authorization, broadcasts and login, at one instant: no time passes     *)
(* and the viewer sends no events.                                         *)
Init == InitWith(MainJsons, BOOLEAN, MainElements, BOOLEAN)

Next ==
    \/ Construct
    \/ Start
    \/ BroadcastNext
    \/ AuthNext
    \/ LoginNext

Spec == Init /\ [][Next]_vars

(* Authorization and login with progress of the authorization tasks: the   *)
(* request is behind timeoutPromise(AUTHORIZATION_TIMEOUT), so it succeeds *)
(* or fails, and the runtime runs the renderings and mutations it was      *)
(* given.  A client document with an authorization endpoint, with or       *)
(* without a fallback response; no broadcast arrives.                      *)
LiveJsons ==
    {j \in MainJsons :
        /\ j.type = "client"
        /\ j.authorization = "https"
        /\ j.pingback = "https"}

InitLive == InitWith(LiveJsons, {FALSE}, MainElements, BOOLEAN)

NextLive ==
    \/ Construct
    \/ Start
    \/ AuthNext
    \/ LoginUrlsBuilt
    \/ Login("a")
    \/ \E a \in DOMAIN logins : \E s \in SuccessValues : DialogDone(a, s)

SpecLive == InitLive /\ [][NextLive]_vars /\ WF_vars(AuthNext)

(* The view cycle: authorization, broadcasts, the viewer's events and      *)
(* time; nobody logs in.                                                   *)
ViewJsons == {j \in MainJsons : j.authorization = "https"}

InitView == InitWith(ViewJsons, {FALSE}, MainElements, BOOLEAN)

NextView ==
    \/ Construct
    \/ Start
    \/ BroadcastNext
    \/ AuthNext
    \/ ViewNext
    \/ Tick

SpecView == InitView /\ [][NextView]_vars

(* Login and time, in a document that stays hidden.                        *)
InitLogin == InitWith(MainJsons, {FALSE}, MainElements, {FALSE})

NextLogin ==
    \/ Construct
    \/ Start
    \/ AuthNext
    \/ LoginNext
    \/ Tick

SpecLogin == InitLogin /\ [][NextLogin]_vars

(* The constructor, on every configuration.                                *)
InitConfig == InitWith(ConfigJsons, {FALSE}, {<<>>}, {TRUE})

SpecConfig == InitConfig /\ [][Construct]_vars

(* The elements: one or two, with and without templates, under             *)
(* authorization runs that overlap.                                        *)
ApplyJsons ==
    {j \in MainJsons :
        /\ j.type = "client"
        /\ j.authorization = "https"
        /\ j.pingback = "https"
        /\ j.authorizationFallbackResponse}

ApplyElements ==
    {<<e>> : e \in ElementKinds} \cup {<<e, f>> : e, f \in ElementKinds}

InitApply == InitWith(ApplyJsons, {FALSE}, ApplyElements, {TRUE})

NextApply ==
    \/ Construct
    \/ Start
    \/ BroadcastNext
    \/ AuthNext

SpecApply == InitApply /\ [][NextApply]_vars

(* One login in a visible document: the view cycle of the start and the   *)
(* one the completed login schedules, with no elements and no broadcasts   *)
(* received.                                                               *)
ReloginJsons ==
    {j \in MainJsons :
        /\ j.type = "client"
        /\ j.authorization = "https"
        /\ j.pingback = "https"
        /\ ~j.authorizationFallbackResponse}

InitRelogin == InitWith(ReloginJsons, {FALSE}, {<<>>}, {TRUE})

NextRelogin ==
    \/ Construct
    \/ Start
    \/ \E k \in DOMAIN runs : \E response \in ServerResponses :
          FetchOk(k, response)
    \/ LoginUrlsBuilt
    \/ logins = <<>> /\ Login("a")
    \/ \E a \in DOMAIN logins : DialogDone(a, "true")
    \/ ViewNext
    \/ Tick

SpecRelogin == InitRelogin /\ [][NextRelogin]_vars

(***************************************************************************)
(* Properties.                                                             *)
(***************************************************************************)
\* The calls of firstAuthorizationResolver_ made so far: one by every run
\* that took the skip path or obtained a response.
ResolverCalls ==
    Cardinality({k \in DOMAIN runs :
                    runs[k].st = "skipped" \/ runs[k].response # NullResponse})

\* C1: the promise whenFirstAuthorized() returns is pending or resolved,
\* never rejected; once resolved it stays resolved in every later step,
\* whatever run calls the resolver again; and it is resolved as soon as the
\* resolver has been called.
FirstAuthorizationResolvesOnce ==
    [][/\ firstAuthorizationPromise_ \in {"pending", "resolved"}
       /\ firstAuthorizationPromise_ = "resolved"
            => firstAuthorizationPromise_' = "resolved"
       /\ ResolverCalls' > 0 => firstAuthorizationPromise_' = "resolved"]_vars

\* The resolver was called by runs of all three origins, and by two runs at
\* least after the promise was resolved.
FirstAuthorizationResolvedAgain ==
    /\ firstAuthorizationPromise_ = "resolved"
    /\ ResolverCalls >= 2
    /\ \E k \in DOMAIN runs : runs[k].by = "login" /\ runs[k].response # NullResponse

\* C2: when the promise lastAuthorizationPromise_ holds is settled, the
\* first-authorization promise is resolved.
LastAuthorizationAfterFirst ==
    AuthorizationSettled(lastAuthorizationPromise_)
        => firstAuthorizationPromise_ = "resolved"

\* A later run's Promise.all is the current one and is settled, after a run
\* before it failed.
LastAuthorizationOfLaterRunSettled ==
    /\ lastAuthorizationPromise_ > 1
    /\ AuthorizationSettled(lastAuthorizationPromise_)
    /\ \E k \in DOMAIN runs : k < lastAuthorizationPromise_ /\ runs[k].failed

\* No authorization request is out and no element is being updated.
AuthorizationQuiet == \A k \in DOMAIN runs : RunResolved(runs[k])

\* C3: after a run failed unrecoverably the error indicator was set, the
\* first-authorization promise is not rejected, and once the authorization
\* work is finished the promise is resolved, so that what waits for it goes
\* on.
FirstAuthorizationResolvesAfterFailure ==
    (AuthorizationQuiet /\ \E k \in DOMAIN runs : runs[k].failed)
        => /\ firstAuthorizationPromise_ = "resolved"
           /\ AuthorizationSettled(lastAuthorizationPromise_)

\* The time since the pending login attempt started.
LoginElapsed == now - loginStartTime_

\* A login() call that finds an attempt pending inside its window returns
\* the pending promise and opens no dialog, whatever the variant.
LoginInsideWindow(type) ==
    (Login(type) /\ loginPromise_ # 0 /\ LoginElapsed < LoginBlockMs)
        => /\ lastLogin'.ret = loginPromise_
           /\ logins' = logins
           /\ loginPromise_' = loginPromise_

OpensNewDialog ==
    /\ Len(logins') = Len(logins) + 1
    /\ logins'[Len(logins')].st = "dialog"
    /\ loginPromise_' = Len(logins')
    /\ lastLogin'.ret = Len(logins')
    /\ lastLogin'.ret # loginPromise_

\* C4 as stated: inside the window the pending promise is returned; after
\* it every call opens a new dialog and returns a new promise.
LoginDedupAnyVariant ==
    [][\A type \in LoginTypes :
          /\ LoginInsideWindow(type)
          /\ (Login(type) /\ loginPromise_ # 0 /\ LoginElapsed >= LoginBlockMs)
                => OpensNewDialog]_vars

\* C4, amended: after the window a call opens a new dialog and returns a
\* new promise when its variant has a configured and resolved login URL;
\* with another variant it throws and opens no dialog.
LoginDedup ==
    [][\A type \in LoginTypes :
          /\ LoginInsideWindow(type)
          /\ (Login(type) /\ loginPromise_ # 0 /\ LoginElapsed >= LoginBlockMs)
                => IF LoginUrlReady(type)
                   THEN OpensNewDialog
                   ELSE /\ lastLogin'.ret = Thrown
                        /\ logins' = logins
                        /\ loginPromise_' = loginPromise_]_vars

\* A second dialog was opened while the first was pending, and a call that
\* followed got the second attempt's pending promise back.
SecondLoginOpenedThenDeduped ==
    /\ Len(logins) = 2
    /\ logins[1].st = "dialog"
    /\ logins[2].st = "dialog"
    /\ loginPromise_ = 2
    /\ lastLogin = [branch |-> "pending", ret |-> 2]
    /\ loginStartTime_ = now - TickMs

Viewed(report) == report.st \in {"authwait", "sending", "resolved", "failed"}

BecomesHidden == VisibilityChanged /\ ~visible'

\* C5: a wait with timeToView > 0 is settled by the first trigger that
\* fires and by nothing else: a scroll or a click registers the view in
\* that step, whatever time is left on the timer; the timer registers it
\* when timeToView has passed, and time does not pass the timer; a change
\* to not visible cancels the wait.
FirstTriggerDecides ==
    [][\A r \in DOMAIN reports :
          reports[r].st = "waiting" =>
            /\ reports[r].timeToView > 0
            /\ \A trigger \in {"scroll", "click"} :
                  UserGesture(trigger)
                    => /\ reports'[r].st = "authwait"
                       /\ reports'[r].cause = trigger
                       /\ reports'[r].due = reports[r].due
            /\ TimerFires(r)
                    => /\ reports'[r].st = "authwait"
                       /\ reports'[r].cause = "timer"
                       /\ reports[r].due = 0
            /\ BecomesHidden => reports'[r].st = "canceled"
            /\ Tick => reports'[r].st = "waiting" /\ reports'[r].due >= 0
            /\ reports'[r].st = "authwait"
                    => \/ TimerFires(r)
                       \/ \E trigger \in {"scroll", "click"} :
                             UserGesture(trigger)
            /\ reports'[r].st = "canceled" => BecomesHidden
            /\ reports'[r].st \in {"waiting", "authwait", "canceled"}]_vars

\* A view scheduled with VIEW_TIMEOUT was registered by a scroll one tick
\* after the wait began, with the rest of the time still on the timer.
ViewedByScrollBeforeTimer ==
    \E r \in DOMAIN reports :
        /\ reports[r].st = "authwait"
        /\ reports[r].cause = "scroll"
        /\ reports[r].timeToView = VIEW_TIMEOUT
        /\ reports[r].due = VIEW_TIMEOUT - TickMs

\* C6: a wait has its four triggers armed until it is settled and none
\* after; a settled wait is not settled again: a view stays a view, a
\* cancellation a cancellation, by the trigger that settled it.
TriggersReleasedTogether ==
    [][\A r \in DOMAIN reports :
          /\ reports[r].armed = IF reports[r].st = "waiting" THEN Triggers ELSE {}
          /\ reports'[r].armed = IF reports'[r].st = "waiting" THEN Triggers ELSE {}
          /\ reports[r].st # "waiting"
                => /\ reports'[r].cause = reports[r].cause
                   /\ Viewed(reports[r]) => Viewed(reports'[r])
                   /\ reports[r].st = "canceled" => reports'[r].st = "canceled"
                   /\ \A trigger \in Triggers : ~Armed(reports'[r], trigger)]_vars

\* A canceled wait and a later wait that a click settled, every trigger of
\* both released, and the viewer's events go on.
WaitsSettledAndReleased ==
    \E r, q \in DOMAIN reports :
        /\ r < q
        /\ reports[r].st = "canceled" /\ reports[r].armed = {}
        /\ reports[q].st = "authwait" /\ reports[q].cause = "click"
        /\ reports[q].armed = {}

\* The run most recently started has settled.
MostRecentRunSettled == runs # <<>> => RunResolved(runs[Len(runs)])

SchedulesImmediateView ==
    /\ viewListeners' = Append(viewListeners, 0)
    /\ IF visible
       THEN /\ reportViewPromise_' = Len(reports) + 1
            /\ reports' = Append(reports,
                                 ImmediateView(lastAuthorizationPromise_', now))
       ELSE reportViewPromise_' = 0 /\ reports' = reports

\* C7: a dialog result whose success is true, yes, 1 or empty sends the
\* re-authorize broadcast and starts a run with the fallback disabled, in
\* this order, and scheduleView_(0) follows in the step that resolves that
\* run, not before; any other success value sends no broadcast, starts no
\* run and schedules no view.
LoginSuccessRepeatsFlows ==
    [][/\ \A a \in DOMAIN logins : \A s \in SuccessValues :
             DialogDone(a, s) =>
                IF s \in {"true", "yes", "1", ""}
                THEN /\ broadcasts' = broadcastReauthorize_(broadcasts)
                     /\ Len(runs') = Len(runs) + 1
                     /\ runs'[Len(runs')].by = "login"
                     /\ runs'[Len(runs')].disableFallback
                     /\ logins'[a].run = Len(runs')
                     /\ SubSeq(logins'[a].steps, 1, 2)
                           = <<"broadcast", "runAuthorization(true)">>
                     /\ IF RunResolved(runs'[Len(runs')])
                        THEN logins'[a].st = "resolved" /\ SchedulesImmediateView
                        ELSE logins'[a].st = "reauth" /\ UNCHANGED viewVars
                ELSE /\ logins'[a].st = "resolved"
                     /\ logins'[a].steps = <<>>
                     /\ UNCHANGED <<authVars, viewVars, broadcasts>>
       /\ \A a \in DOMAIN logins :
             logins[a].st = "reauth" =>
                IF RunResolved(runs'[logins[a].run])
                THEN /\ logins'[a].st = "resolved"
                     /\ logins'[a].steps = <<"broadcast", "runAuthorization(true)",
                                             "scheduleView(0)">>
                     /\ SchedulesImmediateView
                ELSE logins'[a] = logins[a]
       /\ (phase = "started" /\ viewListeners' # viewListeners)
             => \E a \in DOMAIN logins :
                   /\ logins[a].st \in {"dialog", "reauth"}
                   /\ logins'[a].st = "resolved"
                   /\ RunResolved(runs'[logins'[a].run])]_vars

\* A dialog returned an empty success value; the run it started fetched a
\* response and was applied; then the view was scheduled at once.
LoginWithEmptySuccessReauthorized ==
    \E a \in DOMAIN logins :
        /\ logins[a].event = "rejected"
        /\ logins[a].st = "resolved"
        /\ logins[a].steps = <<"broadcast", "runAuthorization(true)",
                               "scheduleView(0)">>
        /\ runs[logins[a].run].response.from = "server"
        /\ reportViewPromise_ # 0
        /\ reports[reportViewPromise_].timeToView = 0

LoginMapEmpty(json) ==
    \/ json.login.kind = "absent"
    \/ json.login.kind = "map" /\ DOMAIN json.login.map = {}

\* C8: for type client or server, and for an absent type, the constructor
\* fails when authorization or pingback is missing or the login map is
\* empty; for type other a configuration that lacks all three is built.
MandatoryForClientAndServer ==
    phase # "new" =>
        /\ ( /\ configJson.type \in {"absent", "client", "server"}
             /\ \/ configJson.authorization = NoUrl
                \/ configJson.pingback = NoUrl
                \/ LoginMapEmpty(configJson) )
              => phase = "failed" /\ config_ = NoConfig
        /\ ( /\ configJson.parses
             /\ configJson.type = "other"
             /\ configJson.authorization \in {NoUrl, "https"}
             /\ configJson.pingback \in {NoUrl, "https"}
             /\ LoginMapEmpty(configJson) )
              => /\ phase = "constructed"
                 /\ config_.type = "other"
                 /\ config_.authorization = (configJson.authorization # NoUrl)
                 /\ config_.pingback = (configJson.pingback # NoUrl)
                 /\ config_.loginMap = {}

\* A configuration without a type and without pingback, which has an
\* authorization URL and a login URL, was refused.
DefaultTypeWithoutPingbackRefused ==
    /\ phase = "failed"
    /\ configJson.parses
    /\ configJson.type = "absent"
    /\ configJson.authorization = "https"
    /\ configJson.pingback = NoUrl
    /\ configJson.login.kind = "string"
    /\ configJson.login.str = "https"

\* The application of run k's response to element i ends in this step.
ApplicationEnds(k, i) ==
    runs[k].el[i].stage # "done" /\ runs'[k].el[i].stage = "done"

\* C10: when the application of a response to an element ends, the element
\* has the hide marker exactly when its expression is false on that
\* response, whatever the marker was; so it is after a run that no other
\* run overlapped; and for an element with templates whose expression is
\* true, the marker is tested and changed only after the rendering.
HideMarkerFollowsExpression ==
    [][/\ \A k \in DOMAIN runs' : \A i \in DOMAIN elements :
             LET on == evaluateAccessExpr(elements[i].expr, runs'[k].response)
                 before == IF k \in DOMAIN runs
                           THEN runs[k].el[i].stage ELSE "idle"
                 after == runs'[k].el[i].stage
             IN /\ (before # "done" /\ after = "done") => hide'[i] = ~on
                /\ (after # "idle" /\ elements[i].template /\ on) =>
                      /\ before = "idle" => after = "render"
                      /\ before = "render" => after \in {"render", "mutate", "done"}
                      /\ after = "render" => before \in {"idle", "render"}
                /\ (before = "render" /\ after = "render") => hide'[i] = hide[i]
                      \/ \E q \in DOMAIN runs : q # k /\ ApplicationEnds(q, i)
       /\ (Len(runs') = 1 /\ runs'[1].st = "resolved" /\ ~runs'[1].failed)
             => \A i \in DOMAIN elements :
                   hide'[i] = ~evaluateAccessExpr(elements[i].expr, authResponse_')]_vars

\* Run 1 left an element with a template hidden; run 2 rendered its
\* template and then removed the marker.
TemplateRenderedThenShown ==
    /\ Len(runs) = 2
    /\ elements[1].template
    /\ runs[1].st = "resolved" /\ ~runs[1].failed /\ ~runs[1].el[1].on
    /\ runs[2].st = "resolved" /\ ~runs[2].failed /\ runs[2].el[1].on
    /\ runs[2].response.from = "server"
    /\ ~hide[1]

\* C11: when the fetch of a run fails, the fallback response is stored and
\* applied as the run's response and the error indicator is cleared if a
\* fallback is configured and the run did not disable it; otherwise no
\* response is stored, no element is touched, then or later, and the error
\* indicator is set.
FallbackOnFetchFailure ==
    [][/\ \A k \in DOMAIN runs :
             FetchFail(k) =>
                IF config_.authorizationFallbackResponse
                   /\ ~runs[k].disableFallback
                THEN /\ authResponse_' = FallbackResponse
                     /\ runs'[k].response = FallbackResponse
                     /\ ~runs'[k].failed
                     /\ ~error'
                     /\ \A i \in DOMAIN elements :
                           /\ runs'[k].el[i].stage # "idle"
                           /\ runs'[k].el[i].on
                                 = evaluateAccessExpr(elements[i].expr,
                                                      FallbackResponse)
                ELSE /\ authResponse_' = authResponse_
                     /\ runs'[k].response = NullResponse
                     /\ runs'[k].failed
                     /\ error'
                     /\ hide' = hide
                     /\ \A i \in DOMAIN elements :
                           runs'[k].el[i].stage = "idle"
       /\ \A k \in DOMAIN runs :
             runs[k].failed => runs'[k] = runs[k] \/ runs'[k] = [runs[k] EXCEPT !.joined = TRUE]]_vars

\* The run of the start took the fallback; the run of a login, which
\* disables it, failed in the same document.
FallbackTakenThenRefusedToLogin ==
    \E k, q \in DOMAIN runs :
        /\ runs[k].by = "start"
        /\ runs[k].response = FallbackResponse
        /\ runs[q].by = "login"
        /\ runs[q].disableFallback
        /\ runs[q].failed
        /\ config_.authorization
        /\ error

\* C12: with type other, and no fallback response or a proxy origin, a
\* call of runAuthorization_ sends no request, stores and applies nothing,
\* resolves the first-authorization promise and returns a resolved
\* promise; with type other, a fallback response, no authorization URL and
\* no proxy origin it stores and applies the fallback response without a
\* request.
OtherTypeSkipsOrFallsBack ==
    [][/\ Len(runs') = Len(runs) + 1 =>
             LET k == Len(runs') IN
             /\ ( /\ config_.type = "other"
                  /\ ~config_.authorizationFallbackResponse \/ isProxyOrigin_ )
                   => /\ runs'[k].st = "skipped"
                      /\ runs'[k].response = NullResponse
                      /\ \A i \in DOMAIN elements : runs'[k].el[i].stage = "idle"
                      /\ authResponse_' = authResponse_
                      /\ hide' = hide
                      /\ loading' = loading
                      /\ firstAuthorizationPromise_' = "resolved"
                      /\ runs'[k].by = "login"
                            => \E a \in DOMAIN logins :
                                  /\ logins'[a].run = k
                                  /\ logins'[a].st = "resolved"
             /\ ( /\ config_.type = "other"
                  /\ config_.authorizationFallbackResponse
                  /\ ~config_.authorization
                  /\ ~isProxyOrigin_ )
                   => /\ runs'[k].st \in {"applying", "resolved"}
                      /\ runs'[k].response = FallbackResponse
                      /\ authResponse_' = FallbackResponse
                      /\ firstAuthorizationPromise_' = "resolved"
                      /\ \A i \in DOMAIN elements : runs'[k].el[i].stage # "idle"
       /\ \A k \in DOMAIN runs :
             /\ runs[k].st = "skipped" => runs'[k] = runs[k]
             /\ runs'[k].st = "fetching" => config_.authorization]_vars

\* On a proxy origin a type=other document with a fallback response
\* skipped its authorization.
SkippedOnProxyOrigin ==
    /\ config_.type = "other"
    /\ config_.authorizationFallbackResponse
    /\ isProxyOrigin_
    /\ runs # <<>>
    /\ runs[1].st = "skipped"
    /\ firstAuthorizationPromise_ = "resolved"
    /\ authResponse_ = NullResponse

\* C13: a received message starts a run of runAuthorization_ exactly when
\* its type is amp-access-reauthorize and its origin is the publisher
\* origin of this document; any other message starts no run and changes
\* nothing; and every message the service sends has its own publisher
\* origin.
BroadcastOfOwnOriginReauthorizes ==
    [][/\ \A message \in Messages :
             ReceiveBroadcast(message) =>
                IF /\ message.type = "amp-access-reauthorize"
                   /\ message.origin = "https://publisher.example"
                THEN /\ Len(runs') = Len(runs) + 1
                     /\ runs'[Len(runs')].by = "broadcast"
                     /\ ~runs'[Len(runs')].disableFallback
                ELSE UNCHANGED vars
       /\ (Len(runs') = Len(runs) + 1 /\ runs'[Len(runs')].by = "broadcast")
             => ReceiveBroadcast([type |-> "amp-access-reauthorize",
                                  origin |-> "https://publisher.example"])
       /\ \A i \in DOMAIN broadcasts' :
             /\ broadcasts'[i].type = "amp-access-reauthorize"
             /\ broadcasts'[i].origin = "https://publisher.example"]_vars

\* The service has sent a broadcast of its own and has run an
\* authorization for a broadcast it received.
BroadcastSentAndReceived ==
    /\ broadcasts # <<>>
    /\ \E k \in DOMAIN runs : runs[k].by = "broadcast"

\* A pingback request was sent for report r.
PingbackSent(r) ==
    \/ reports[r].st \in {"sending", "failed"}
    \/ reports[r].st = "resolved" /\ config_.pingback

\* C14: after a pingback request failed, the service sends no further
\* pingback request unless a login that completed scheduled a new view; a
\* later change to visible, in particular, leads to no second request.
NoPingbackAfterFailedPingback ==
    \A r, q \in DOMAIN reports :
        (reports[r].st = "failed" /\ q > r /\ PingbackSent(q))
            => \E a \in DOMAIN logins :
                  /\ logins[a].st = "resolved"
                  /\ "scheduleView(0)" \in {logins[a].steps[i] :
                                              i \in DOMAIN logins[a].steps}

\* Report r ends with st in this step.
ReportEnds(r, st) == reports[r].st # st /\ reports'[r].st = st

\* C15: the view path sends the re-authorize broadcast only in the step in
\* which a view report ends with success, which is the success of the
\* pingback request or, with no pingback URL, the moment the report would
\* send it (no request is sent then); a canceled wait or a failed pingback
\* sends none.
BroadcastOnlyAfterReportedView ==
    [][/\ broadcasts' # broadcasts =>
             /\ broadcasts' = Append(broadcasts,
                   [type |-> "amp-access-reauthorize",
                    origin |-> "https://publisher.example"])
             /\ \E r \in DOMAIN reports :
                   /\ ReportEnds(r, "resolved")
                   /\ reports[r].st = IF config_.pingback
                                      THEN "sending" ELSE "authwait"
       /\ \A r \in DOMAIN reports :
             /\ ReportEnds(r, "resolved") => broadcasts' # broadcasts
             /\ ReportEnds(r, "canceled") => broadcasts' = broadcasts
             /\ ReportEnds(r, "failed") => broadcasts' = broadcasts
             /\ ReportEnds(r, "sending") => config_.pingback
       /\ Len(broadcasts')
             = Cardinality({r \in DOMAIN reports' :
                               reports'[r].st = "resolved"})]_vars

\* A wait was canceled and sent nothing; the next one was viewed, its
\* pingback succeeded and the broadcast was sent.
BroadcastAfterSecondWait ==
    /\ config_.pingback
    /\ Len(reports) = 2
    /\ reports[1].st = "canceled"
    /\ reports[2].st = "resolved"
    /\ Len(broadcasts) = 1

\* A wait that is still armed although scheduleView_ has since started
\* another cycle: reportViewPromise_ is no longer its chain.
WaitOfEarlierCycle(r) ==
    reports[r].st = "waiting" /\ reportViewPromise_ # r

\* C16: a scheduleView_ that finds the wait of an earlier cycle pending
\* destroys it: the triggers of that wait register no view any more, so
\* that it leads to no pingback, and its cancellation leaves the record of
\* the new cycle as it is.
EarlierCycleDestroyed ==
    [][\A r \in DOMAIN reports :
          WaitOfEarlierCycle(r) =>
             /\ reports'[r].st # "authwait"
             /\ reports'[r].st = "canceled"
                   => reportViewPromise_' = reportViewPromise_]_vars

\* C17: a view cycle scheduled in a document that is not visible arms no
\* trigger and registers no view; while the document stays hidden nothing
\* is armed; the wait starts in the step that makes the document visible,
\* with all four triggers and the whole of timeToView left on its timer.
HiddenDocumentDefersView ==
    [][/\ (Start /\ ~visible) =>
             /\ reports' = <<>>
             /\ reportViewPromise_' = 0
             /\ viewListeners' = <<2000>>
       /\ ~visible' =>
             \A r \in DOMAIN reports' :
                /\ reports'[r].st # "waiting"
                /\ reports'[r].armed = {}
       /\ \A r \in DOMAIN reports : ReportEnds(r, "authwait") => visible
       /\ Len(reports') # Len(reports) =>
             /\ visible'
             /\ Start \/ (VisibilityChanged /\ ~visible)
             /\ reports' = Append(reports,
                   [st |-> "waiting", timeToView |-> 2000, due |-> 2000,
                    waitsFor |-> 0,
                    armed |-> {"visibility", "timer", "scroll", "click"},
                    cause |-> "none"])
             /\ reportViewPromise_' = Len(reports')]_vars

\* The service started in a hidden document: the cycle is scheduled and
\* nothing is armed.
ScheduledWhileHidden ==
    /\ phase = "started"
    /\ ~visible
    /\ viewListeners = <<2000>>
    /\ reports = <<>>
    /\ reportViewPromise_ = 0
    /\ runs[1].st = "resolved"

\* C18: a wait canceled by a change to not visible sends no pingback and
\* no broadcast, then or later; its chain is rejected with the
\* cancellation and reportViewPromise_ is cleared, so that the next change
\* to visible starts a new wait.
CanceledViewMayStartAgain ==
    [][/\ (visible /\ ~visible') =>
             \A r \in DOMAIN reports :
                reports[r].st = "waiting" => ReportEnds(r, "canceled")
       /\ \A r \in DOMAIN reports :
             /\ ReportEnds(r, "canceled") =>
                   /\ reports[r].st = "waiting"
                   /\ visible /\ ~visible'
                   /\ reports'[r].armed = {}
                   /\ reports'[r].cause = "hidden"
                   /\ broadcasts' = broadcasts
                   /\ reportViewPromise_' = 0
             /\ reports[r].st = "canceled" => reports'[r] = reports[r]
       /\ ( /\ ~visible /\ visible'
            /\ reportViewPromise_ = 0
            /\ viewListeners # <<>> ) =>
             /\ Len(reports') = Len(reports) + 1
             /\ reports'[Len(reports')].st = "waiting"
             /\ reportViewPromise_' = Len(reports')]_vars

\* The first wait was canceled and nothing was sent; the document became
\* visible again and a second wait is armed.
CanceledThenWaitingAgain ==
    /\ Len(reports) = 2
    /\ reports[1].st = "canceled"
    /\ reports[1].cause = "hidden"
    /\ reports[2].st = "waiting"
    /\ reportViewPromise_ = 2
    /\ broadcasts = <<>>
    /\ PingbacksSent = 0

\* The failure of the dialog of attempt a rejects the promise login()
\* returned for it, and no broadcast, run or view follows.
DialogFailurePropagates(a) ==
    DialogFail(a) =>
        /\ logins'[a].st = "rejected"
        /\ logins'[a].event = "failed"
        /\ logins'[a].steps = <<>>
        /\ UNCHANGED <<authVars, viewVars, broadcasts>>

\* A login() call that finds no attempt pending opens a dialog for a
\* variant whose URL is ready, however short the time since the latest
\* attempt started.
LoginOpensWhenNothingPending ==
    \A type \in LoginTypes :
        (Login(type) /\ loginPromise_ = 0 /\ LoginUrlReady(type))
            => OpensNewDialog

\* C19 as stated: when a login dialog fails, the failure reaches the
\* caller, no broadcast, run or view follows, and the pending login state
\* is cleared, so that the next login() call opens a new dialog.
DialogFailureClearsPending ==
    [][/\ \A a \in DOMAIN logins :
             /\ DialogFailurePropagates(a)
             /\ DialogFail(a) => loginPromise_' = 0
       /\ LoginOpensWhenNothingPending]_vars

\* C19, amended: the pending login state is cleared when the attempt that
\* failed is the pending one; when a later attempt has taken its place,
\* that attempt stays pending.
DialogFailureClearsOwnPending ==
    [][/\ \A a \in DOMAIN logins :
             /\ DialogFailurePropagates(a)
             /\ DialogFail(a) =>
                   loginPromise_' = IF loginPromise_ = a
                                    THEN 0 ELSE loginPromise_
       /\ LoginOpensWhenNothingPending]_vars

\* The only attempt failed less than 1000ms after it started, and nothing
\* is pending.
DialogFailedInsideWindow ==
    /\ Len(logins) = 1
    /\ logins[1].st = "rejected"
    /\ logins[1].event = "failed"
    /\ loginPromise_ = 0
    /\ LoginElapsed < LoginBlockMs

\* C20: a login() call that is not deduplicated, for a variant with no
\* configured or no resolved login URL, throws, opens no dialog and leaves
\* loginPromise_ and loginStartTime_ as they are; the variant is looked at
\* only after the dedup test, so inside the window of a pending attempt
\* such a call returns the pending promise.
UnreadyVariantFailsAfterDedup ==
    [][\A type \in LoginTypes :
          (Login(type) /\ (type \notin config_.loginMap
                           \/ type \notin loginUrlMap_)) =>
             /\ logins' = logins
             /\ loginPromise_' = loginPromise_
             /\ loginStartTime_' = loginStartTime_
             /\ IF loginPromise_ # 0 /\ LoginElapsed < LoginBlockMs
                THEN /\ lastLogin'.branch = "pending"
                     /\ lastLogin'.ret = loginPromise_
                ELSE /\ lastLogin'.branch = "thrown"
                     /\ lastLogin'.ret = Thrown]_vars

\* A call made 1000ms or more after the pending attempt started has
\* thrown, and the attempt is still the pending one.
LoginThrewBesidePendingAttempt ==
    /\ lastLogin.branch = "thrown"
    /\ loginPromise_ = 1
    /\ logins[1].st = "dialog"
    /\ Len(logins) = 1
    /\ LoginElapsed >= LoginBlockMs

\* Report r is in flight or has succeeded.
ReportInFlightOrDone(r) ==
    reports[r].st \in {"authwait", "sending", "resolved"}

\* Report r was started in the view cycle that is the current one: the
\* only cycle so far, or, where one login is made, the cycle of its
\* scheduleView_(0), the only source of a report with timeToView 0.
ReportOfCurrentCycle(r) ==
    Len(viewListeners) = 1 \/ reports[r].timeToView = 0

\* C21: within one view cycle, once a report of the cycle is in flight or
\* has succeeded, no step other than a scheduleView_ call starts a new
\* view monitoring, so that the cycle sends at most one pingback.
OneMonitoringPerCycle ==
    [][( /\ viewListeners' = viewListeners
         /\ \E r \in DOMAIN reports :
               ReportInFlightOrDone(r) /\ ReportOfCurrentCycle(r) )
          => Len(reports') = Len(reports)]_vars

\* C22: while the dialog of the newest login attempt is open, that attempt
\* is the one loginPromise_ records, also after the dialog of an older
\* attempt has completed; so a login() call inside its window returns its
\* promise and opens no dialog.
NewerAttemptStaysPending ==
    (logins # <<>> /\ logins[Len(logins)].st = "dialog")
        => /\ loginPromise_ = Len(logins)
           /\ LoginElapsed < LoginBlockMs
                 => LoginDeduped(loginPromise_, loginStartTime_, now)

\* Run k obtains its response, fetched or fallback, in this step.
ObtainsResponse(k) ==
    /\ runs'[k].response # NullResponse
    /\ k \in DOMAIN runs => runs[k].response = NullResponse

\* C23: authResponse_ changes only in a step in which a run obtains a
\* response, and then it is that response, whole; a run that fails or
\* takes the skip path leaves it as it is, so that what reads it after a
\* failed re-authorization reads the response of the run before.
ResponseReplacedOnlyByResponse ==
    [][/\ authResponse_' # authResponse_ =>
             \E k \in DOMAIN runs' : ObtainsResponse(k)
       /\ \A k \in DOMAIN runs' :
             /\ ObtainsResponse(k) =>
                   /\ authResponse_' = runs'[k].response
                   /\ authResponse_' \in ServerResponses \cup {FallbackResponse}
             /\ (k \in DOMAIN runs /\ ~runs[k].failed /\ runs'[k].failed)
                   => authResponse_' = authResponse_
             /\ (k \notin DOMAIN runs /\ runs'[k].st = "skipped")
                   => authResponse_' = authResponse_]_vars

\* The run of the start stored a response of the server; the run of a
\* login failed, and the stored response is still that of the first run.
ResponseKeptAfterFailedReauthorization ==
    /\ Len(runs) = 2
    /\ runs[1].response.from = "server"
    /\ runs[1].response.subscriber
    /\ runs[1].st = "resolved"
    /\ runs[2].by = "login"
    /\ runs[2].failed
    /\ error
    /\ authResponse_ = runs[1].response

\* The promise runAuthorization_ returned for run k is resolved.
RunFinished(k) == Len(runs) >= k /\ RunResolved(runs[k])

\* Login attempt a waits for the promise of its re-authorization run.
LoginAwaitsRun(a) == Len(logins) >= a /\ logins[a].st = "reauth"

\* The reaction of login attempt a to its run has called scheduleView_(0).
LoginRescheduledView(a) ==
    /\ Len(logins) >= a
    /\ logins[a].st = "resolved"
    /\ logins[a].steps =
          <<"broadcast", "runAuthorization(true)", "scheduleView(0)">>

\* C24: the promise runAuthorization_ returns is never rejected: a fetch
\* that succeeds or falls back clears the loading class and goes on to
\* apply the response, a fetch that fails without a usable fallback clears
\* the loading class, sets the error class and resolves the promise; a
\* resolved promise stays resolved; every run's promise is resolved in the
\* end; and a login that waits for its run calls scheduleView_(0) in the
\* step that resolves the run, also when the run failed, so that such a
\* login always reaches that call.
RunAuthorizationNeverFails ==
    /\ [][\A k \in DOMAIN runs :
             /\ (\E response \in ServerResponses : FetchOk(k, response))
                   => /\ ~loading'
                      /\ ~error'
                      /\ ~runs'[k].failed
                      /\ runs'[k].st \in {"applying", "resolved"}
             /\ FetchFail(k)
                   => /\ ~loading'
                      /\ runs'[k].st \in {"applying", "resolved"}
                      /\ runs'[k].failed
                            <=> ~( /\ config_.authorizationFallbackResponse
                                   /\ ~runs[k].disableFallback )
                      /\ runs'[k].failed
                            => runs'[k].st = "resolved" /\ error'
             /\ RunResolved(runs[k]) => runs'[k] = [runs[k] EXCEPT
                                            !.joined = runs'[k].joined]
             /\ (~RunResolved(runs[k]) /\ RunResolved(runs'[k]))
                   => \A a \in WaitingLogins(k) :
                         /\ LoginRescheduledView(a)'
                         /\ SchedulesImmediateView]_vars
    /\ \A k \in 1..MaxRuns : (Len(runs) >= k) ~> RunFinished(k)
    /\ \A a \in 1..MaxLogins : LoginAwaitsRun(a) ~> LoginRescheduledView(a)

\* The re-authorization run of a login failed: the error class is set, the
\* loading class is cleared, and the login went on to scheduleView_(0).
ViewRescheduledAfterFailedRun ==
    \E a \in DOMAIN logins :
        /\ LoginRescheduledView(a)
        /\ runs[logins[a].run].failed
        /\ runs[logins[a].run].st = "resolved"
        /\ error
        /\ ~loading
        /\ viewListeners[Len(viewListeners)] = 0

====
